---------------------------- MODULE Spec2Model ----------------------------
(***************************************************************************)
(* Aspect-ratio bucketing of data/dataset.py (AspectRatioDataset and       *)
(* worker_init_fn).                                                        *)
(*                                                                         *)
(* Conventions.                                                            *)
(*  - Item ids are the Python indices 0..N-1; raw_res[i+1] is the raw      *)
(*    resolution <<w, h>> of item i.  Bucket indices are Python indices    *)
(*    too (0-based, negative indices wrap as in Python); a bucket's rank   *)
(*    in the table is its position in buckets_sizes.                       *)
(*  - A ratio w/h is kept as a pair <<w, h>> and compared by cross         *)
(*    multiplication.  For the integers used here float64 division keeps   *)
(*    order and equality of the quotients, so the comparisons agree with   *)
(*    numpy's.  The stored doubles (bucket_ratios, to_ratio) are pairs in  *)
(*    lowest terms, so equal doubles are equal values.                     *)
(*  - to_ratio is allocated with np.empty: a cell no chunk writes holds    *)
(*    any value, a choice the action that runs assign_buckets makes.       *)
(*  - The three random sources are abstract generators with RngStates      *)
(*    states.  A shuffle is the Fisher-Yates loop numpy runs, each draw    *)
(*    being a function of the generator state, which then steps.           *)
(***************************************************************************)
EXTENDS Integers, Sequences, FiniteSets

VARIABLES
    pc,             \* "new", "config_error", "constructed", "ready", "crashed"
    target_area, min_size, max_size, divisible, batch_size,
    raw_res,        \* self.store.raw_res
    length,         \* self._length
    buckets_sizes,  \* self.buckets_sizes (self.bucket_ratios is derived)
    bucket_content, \* self.bucket_content
    to_ratio,       \* self.store.to_ratio
    batch_idxs,     \* self.batch_idxs
    first_time,     \* self.first_time
    rng,            \* state of self.rng (np.random.default_rng(seed))
    np_random,      \* state of numpy's global generator (np.random.shuffle)
    random_seed     \* seed last given to random.seed, -1 before any

vars == <<pc, target_area, min_size, max_size, divisible, batch_size, raw_res,
          length, buckets_sizes, bucket_content, to_ratio, batch_idxs,
          first_time, rng, np_random, random_seed>>

---------------------------------------------------------------------------
(* Bounds of the model *)

MaxItems == 4
MaxBatch == 2
RngStates == 2
MaxLongItems == 9
MaxLongBatch == 4

(* Program constants *)

DefaultSeed == 42
AreaModulus == 4096

(* Worker seeds the data loader may supply. *)
WorkerSeeds == {0, 1}

(* Raw resolutions the store may report: ratios 1/3, 1, 3/2 and 3. *)
RawResolutions == { <<100, 300>>, <<100, 100>>, <<300, 200>>, <<300, 100>> }

(* Constructor configurations <<target_area, min_size, max_size, divisible>>. *)
Configurations ==
    { <<16384, 64, 192, 64>>,     \* table (64,192) (128,128) (192,64)
      <<8192, 64, 128, 64>>,      \* table (64,64) (64,128) (128,64)
      <<16384, 64, 128, 64>>,     \* table (64,128) (128,64) (128,128)
      <<20480, 128, 256, 128>>,   \* step 128, area not a multiple of 128^2
      <<1024, 32, 64, 32>> }      \* step 32, area = 32^2

(* The inputs of the runs with longer item lists: tables of one and of      *)
(* three buckets, items of ratio 3/2 and 3.                                 *)
LongConfigurations == { <<20480, 128, 256, 128>>, <<16384, 64, 192, 64>> }

LongItemLists ==
    UNION { { [i \in 1..n |-> IF i <= k THEN <<300, 200>> ELSE <<300, 100>>] :
                k \in 0..n } : n \in 1..MaxLongItems }

---------------------------------------------------------------------------
(* Helpers: ratios, Python indexing, numpy primitives *)

Min(a, b) == IF a <= b THEN a ELSE b

RatioLt(a, b) == a[1] * b[2] < b[1] * a[2]
RatioLe(a, b) == a[1] * b[2] <= b[1] * a[2]
RatioEq(a, b) == a[1] * b[2] = b[1] * a[2]

One == <<1, 1>>

RECURSIVE GCD(_, _)
GCD(a, b) == IF b = 0 THEN a ELSE GCD(b, a % b)

(* The double 0.0 / 0.0; no comparison of the model is applied to it. *)
NaN == <<0, 0>>

(* The double w / h, as the fraction in lowest terms: equal doubles are     *)
(* equal pairs.                                                             *)
quotient(w, h) ==
    LET g == GCD(w, h)
    IN  IF g = 0 THEN NaN ELSE <<w \div g, h \div g>>

(* Marks, inside assign_buckets, a cell of np.empty that no chunk has       *)
(* written yet; no state holds it.                                          *)
Unwritten == <<-1, -1>>

(* What an unwritten cell of np.empty can hold: whatever the allocated      *)
(* memory held, any double.  The doubles of the model: 0.0, every quotient  *)
(* its items and bucket tables have (1/3, 1/2, 1, 3/2, 2, 3), written as    *)
(* quotient writes them, and NaN.                                           *)
np_empty_values ==
    { <<0, 1>>, <<1, 3>>, <<1, 2>>, <<1, 1>>, <<3, 2>>, <<2, 1>>, <<3, 1>>, NaN }

(* The arrays to_ratio can be once assign_buckets has returned or raised:   *)
(* written cells as written, every unwritten cell any of np_empty_values.   *)
np_empty(arr) ==
    LET unwritten == { i \in 1..Len(arr) : arr[i] = Unwritten }
    IN  { [i \in 1..Len(arr) |-> IF i \in unwritten THEN g[i] ELSE arr[i]] :
            g \in [unwritten -> np_empty_values] }

(* seq[i] with a Python index: -Len <= i < Len, negative counts from the end. *)
PyInRange(seq, i) == -Len(seq) <= i /\ i < Len(seq)
PyAt(seq, i) == IF i >= 0 THEN seq[i + 1] ELSE seq[Len(seq) + i + 1]
PyPos(seq, i) == IF i >= 0 THEN i + 1 ELSE Len(seq) + i + 1

Reverse(seq) == [k \in 1..Len(seq) |-> seq[Len(seq) + 1 - k]]

RECURSIVE Flatten(_)
Flatten(ss) == IF ss = <<>> THEN <<>> ELSE Head(ss) \o Flatten(Tail(ss))

Range(seq) == { seq[k] : k \in 1..Len(seq) }

(* int(np.sqrt(n)): the integer square root, by bisection on lo <= r < hi. *)
RECURSIVE ISqrtIn(_, _, _)
ISqrtIn(n, lo, hi) ==
    IF hi - lo <= 1 THEN lo
    ELSE LET mid == (lo + hi) \div 2
         IN  IF mid <= n \div mid THEN ISqrtIn(n, mid, hi) ELSE ISqrtIn(n, lo, mid)

ISqrt(n) == ISqrtIn(n, 0, n + 1)

(* np.split(arr, k): k consecutive chunks of equal length. *)
np_split(arr, k) ==
    LET m == Len(arr) \div k
    IN  [j \in 1..k |-> SubSeq(arr, (j - 1) * m + 1, j * m)]

---------------------------------------------------------------------------
(* generate_buckets *)

(* The assertion of generate_buckets: target_area % 4096 == 0. *)
area_check(area) == area % AreaModulus = 0

(* np.arange(min_size, max_size + 1, divisible) *)
bucket_widths(mn, mx, dv) ==
    IF mx < mn THEN {} ELSE { mn + k * dv : k \in 0..((mx - mn) \div dv) }

(* np.minimum(max_size, ((target_area // width) // divisible) * divisible) *)
bucket_height(area, mx, dv, w) == Min(mx, ((area \div w) \div dv) * dv)

(* The set resos: admitted (w, h), their mirrors, and the square. *)
resos(area, mn, mx, dv) ==
    LET valid == { w \in bucket_widths(mn, mx, dv) : bucket_height(area, mx, dv, w) >= mn }
        side  == (ISqrt(area) \div dv) * dv
    IN  { <<w, bucket_height(area, mx, dv, w)>> : w \in valid }
          \cup { <<bucket_height(area, mx, dv, w), w>> : w \in valid }
          \cup { <<side, side>> }

(* Python's order on tuples: by first component, then by second. *)
TupleLe(a, b) == a[1] < b[1] \/ (a[1] = b[1] /\ a[2] <= b[2])

(* sorted(resos) *)
RECURSIVE sorted(_)
sorted(S) ==
    IF S = {} THEN <<>>
    ELSE LET m == CHOOSE x \in S : \A y \in S : TupleLe(x, y)
         IN  <<m>> \o sorted(S \ {m})

generate_buckets(area, mn, mx, dv) == sorted(resos(area, mn, mx, dv))

(* self.bucket_ratios = self.buckets_sizes[:, 0] / self.buckets_sizes[:, 1] *)
ratios_of(sizes) ==
    [b \in 1..Len(sizes) |-> quotient(sizes[b][1], sizes[b][2])]

bucket_ratios == ratios_of(buckets_sizes)

---------------------------------------------------------------------------
(* assign_buckets *)

(* np.argsort(img_ratios) of the first n items: item ids by ascending raw   *)
(* ratio, equal ratios in index order.                                      *)
RECURSIVE argsort(_, _)
argsort(res, n) ==
    IF n = 0 THEN <<>>
    ELSE LET before == argsort(res, n - 1)
             k == Cardinality({ p \in 1..Len(before) :
                                  RatioLe(res[before[p] + 1], res[n]) })
         IN  SubSeq(before, 1, k) \o <<n - 1>> \o SubSeq(before, k + 1, Len(before))

(* landscape_idxs: sorted ids with raw ratio <= 1 *)
landscape_idxs(res, img_idxs) ==
    SelectSeq(img_idxs, LAMBDA i : RatioLe(res[i + 1], One))

(* portrait_idxs: sorted ids with raw ratio > 1 *)
portrait_idxs(res, img_idxs) ==
    SelectSeq(img_idxs, LAMBDA i : RatioLt(One, res[i + 1]))

(* The chunk list `it` of the first loop.  landscape_idxs[:-reminder] is    *)
(* the empty slice when reminder is 0, and np.split divides it into         *)
(* idx_size // batch_size (empty) parts.                                    *)
landscape_chunks(idxs, bs) ==
    LET idx_size == Len(idxs)
        reminder == idx_size % bs
        body     == IF reminder = 0 THEN <<>> ELSE SubSeq(idxs, 1, idx_size - reminder)
        full     == IF idx_size >= bs THEN np_split(body, idx_size \div bs) ELSE <<>>
    IN  IF reminder # 0
        THEN Append(full, SubSeq(idxs, idx_size - reminder + 1, idx_size))
        ELSE full

(* The chunk list `it` of the second loop: the full chunks of               *)
(* portrait_idxs[reminder:] in reverse order, then portrait_idxs[:reminder]. *)
portrait_chunks(idxs, bs) ==
    LET idx_size == Len(idxs)
        reminder == idx_size % bs
        body     == SubSeq(idxs, reminder + 1, idx_size)
        full     == IF idx_size >= bs
                    THEN Reverse(np_split(body, idx_size \div bs)) ELSE <<>>
    IN  IF reminder # 0 THEN Append(full, SubSeq(idxs, 1, reminder)) ELSE full

(* while self.bucket_ratios[bucket_idx] < img_ratios[idx]: bucket_idx += 1  *)
(* The result is the index the loop stops at; an index that is not in range *)
(* is the one whose read raises IndexError.                                 *)
RECURSIVE cursor_forward(_, _, _)
cursor_forward(ratios, b, r) ==
    IF ~PyInRange(ratios, b) THEN b
    ELSE IF RatioLt(PyAt(ratios, b), r) THEN cursor_forward(ratios, b + 1, r)
    ELSE b

(* while self.bucket_ratios[bucket_idx] > img_ratios[idx]: bucket_idx -= 1 *)
RECURSIVE cursor_backward(_, _, _)
cursor_backward(ratios, b, r) ==
    IF ~PyInRange(ratios, b) THEN b
    ELSE IF RatioLt(r, PyAt(ratios, b)) THEN cursor_backward(ratios, b - 1, r)
    ELSE b

(* place_chunk with the ratio written for one item of the chunk only       *)
(* (to_ratio[idx_chunk[0]] in place of to_ratio[idx_chunk]).                *)
place_chunk_one_ratio(st, ratios, b, chunk) ==
    [ st EXCEPT
        !.bucket_idx = b,
        !.bucket_content[PyPos(ratios, b)] = @ \o chunk,
        !.to_ratio = [ i \in 1..Len(@) |->
                         IF i - 1 = Head(chunk) THEN PyAt(ratios, b) ELSE @[i] ] ]

(* self.bucket_content[bucket_idx].extend(idx_chunk)                        *)
(* self.store.to_ratio[idx_chunk] = self.bucket_ratios[bucket_idx]          *)
place_chunk(st, ratios, b, chunk) ==
    [ st EXCEPT
        !.bucket_idx = b,
        !.bucket_content[PyPos(ratios, b)] = @ \o chunk,
        !.to_ratio = [ i \in 1..Len(@) |->
                         IF (i - 1) \in Range(chunk) THEN PyAt(ratios, b) ELSE @[i] ] ]

(* The body of `for idx_chunk in it` for chunks k..Len(chunks).  forward is *)
(* TRUE in the first loop (decisive item idx_chunk[-1]) and FALSE in the    *)
(* second (decisive item idx_chunk[0]).  st.ok turns FALSE where Python     *)
(* raises IndexError.                                                       *)
RECURSIVE chunk_loop(_, _, _, _, _, _)
chunk_loop(st, res, ratios, chunks, k, forward) ==
    IF k > Len(chunks) THEN st
    ELSE LET chunk == chunks[k]
         IN  IF chunk = <<>> THEN [st EXCEPT !.ok = FALSE]
             ELSE LET idx == IF forward THEN chunk[Len(chunk)] ELSE chunk[1]
                      b   == IF forward
                             THEN cursor_forward(ratios, st.bucket_idx, res[idx + 1])
                             ELSE cursor_backward(ratios, st.bucket_idx, res[idx + 1])
                  IN  IF ~PyInRange(ratios, b)
                      THEN [st EXCEPT !.ok = FALSE, !.bucket_idx = b]
                      ELSE chunk_loop(place_chunk(st, ratios, b, chunk),
                                      res, ratios, chunks, k + 1, forward)

(* assign_buckets: [ok, bucket_idx, bucket_content, to_ratio] when it       *)
(* returns (ok) or at the point where it raises (~ok).                      *)
assign_buckets(res, ratios, bs) ==
    LET img_idxs == argsort(res, Len(res))
        start == [ ok |-> TRUE, bucket_idx |-> 0,
                   bucket_content |-> [b \in 1..Len(ratios) |-> <<>>],
                   to_ratio |-> [i \in 1..Len(res) |-> Unwritten] ]
        first == chunk_loop(start, res, ratios,
                            landscape_chunks(landscape_idxs(res, img_idxs), bs), 1, TRUE)
    IN  IF ~first.ok THEN first
        ELSE chunk_loop([first EXCEPT !.bucket_idx = Len(ratios) - 1], res, ratios,
                        portrait_chunks(portrait_idxs(res, img_idxs), bs), 1, FALSE)

---------------------------------------------------------------------------
(* Random sources *)

(* np.random.default_rng(seed): the generator state a seed gives. *)
seed_state(seed) == seed % RngStates

(* One bounded draw random_interval(i), in 0..i, and the state after it. *)
rng_draw(st, i) == st % (i + 1)
rng_step(st) == (st + 1) % RngStates

swap(x, p, q) == [x EXCEPT ![p] = x[q], ![q] = x[p]]

(* shuffle: for i in reversed(range(1, n)): j = random_interval(i);         *)
(* x[i], x[j] = x[j], x[i].  Here for i (0-based) down to 1.                *)
RECURSIVE shuffle_from(_, _, _)
shuffle_from(x, i, st) ==
    IF i < 1 THEN [seq |-> x, state |-> st]
    ELSE shuffle_from(swap(x, i + 1, rng_draw(st, i) + 1), i - 1, rng_step(st))

shuffle(x, st) == shuffle_from(x, Len(x) - 1, st)

---------------------------------------------------------------------------
(* assign_batches *)

(* arr.reshape(-1, batch_size): the rows of the reshaped array *)
reshape_rows(arr, bs) ==
    [j \in 1..(Len(arr) \div bs) |-> SubSeq(arr, (j - 1) * bs + 1, j * bs)]

(* bucket_batches without the split: the whole bucket as one batch. *)
bucket_batches_unsplit(bucket, bs) == <<bucket>>

(* The batches one shuffled bucket adds to batch_idxs. *)
bucket_batches(bucket, bs) ==
    LET reminder == Len(bucket) % bs
    IN  IF reminder = 0 THEN reshape_rows(bucket, bs)
        ELSE Append(reshape_rows(SubSeq(bucket, 1, Len(bucket) - reminder), bs),
                    SubSeq(bucket, Len(bucket) - reminder + 1, Len(bucket)))

(* `for bucket in self.bucket_content` from bucket k on; acc holds          *)
(* batch_idxs and the state of self.rng.                                    *)
RECURSIVE bucket_loop(_, _, _, _)
bucket_loop(content, k, bs, acc) ==
    IF k > Len(content) THEN acc
    ELSE IF content[k] = <<>> THEN bucket_loop(content, k + 1, bs, acc)
    ELSE LET sh == shuffle(content[k], acc.rng)
         IN  bucket_loop(content, k + 1, bs,
                         [ batch_idxs |-> acc.batch_idxs \o bucket_batches(sh.seq, bs),
                           rng |-> sh.state ])

(* assign_batches: [batch_idxs, rng, np_random] after it *)
assign_batches(content, bs, rng_st, np_st) ==
    LET built == bucket_loop(content, 1, bs, [batch_idxs |-> <<>>, rng |-> rng_st])
        sh    == shuffle(built.batch_idxs, np_st)
    IN  [ batch_idxs |-> sh.seq, rng |-> built.rng, np_random |-> sh.state ]

---------------------------------------------------------------------------
(* put_most_oom_like_batch_first *)

(* The items the generator walks: chain(bucket_content, reversed(bucket_content)) *)
oom_candidates(content) == Flatten(content \o Reverse(content))

(* The batch list after the swap; called with a non-empty candidate list    *)
(* whose first item is in a batch.                                          *)
put_most_oom_like_batch_first(content, batches) ==
    LET idx == Head(oom_candidates(content))
        i   == CHOOSE k \in 1..Len(batches) :
                   /\ idx \in Range(batches[k])
                   /\ \A m \in 1..(k - 1) : idx \notin Range(batches[m])
    IN  swap(batches, 1, i)

(* next(...) raises StopIteration when no item, or no batch holding it, exists. *)
oom_raises(content, batches) ==
    \/ oom_candidates(content) = <<>>
    \/ \A k \in 1..Len(batches) : Head(oom_candidates(content)) \notin Range(batches[k])

---------------------------------------------------------------------------
(* State machine *)

ItemLists == UNION { [1..n -> RawResolutions] : n \in 1..MaxItems }

(* The item lists in one order of their items (falling tuple order, which   *)
(* is not the order of the ratios): one list for every multiset of items.   *)
OrderedItemLists ==
    { res \in ItemLists : \A i \in 1..(Len(res) - 1) : TupleLe(res[i + 1], res[i]) }

Init ==
    /\ pc = "new"
    /\ target_area = 0 /\ min_size = 0 /\ max_size = 0 /\ divisible = 0
    /\ batch_size = 0
    /\ raw_res = <<>>
    /\ length = 0
    /\ buckets_sizes = <<>>
    /\ bucket_content = <<>>
    /\ to_ratio = <<>>
    /\ batch_idxs = <<>>
    /\ first_time = FALSE
    /\ rng = 0
    /\ np_random \in 0..(RngStates - 1)
    /\ random_seed = -1

(* AspectRatioDataset.__init__ with seed left at its default.  The          *)
(* assertion of generate_buckets aborts the construction.                   *)
dataset_init(cfg, bs, res) ==
    /\ rng' = seed_state(DefaultSeed)
    /\ batch_size' = bs
    /\ raw_res' = res
    /\ target_area' = cfg[1]
    /\ min_size' = cfg[2]
    /\ max_size' = cfg[3]
    /\ divisible' = cfg[4]
    /\ length' = (Len(res) + bs - 1) \div bs
    /\ IF area_check(cfg[1])
       THEN /\ buckets_sizes' = generate_buckets(cfg[1], cfg[2], cfg[3], cfg[4])
            /\ first_time' = TRUE
            /\ pc' = "constructed"
       ELSE /\ pc' = "config_error"
            /\ UNCHANGED <<buckets_sizes, first_time>>
    /\ UNCHANGED <<bucket_content, to_ratio, batch_idxs, np_random, random_seed>>

(* worker_init_fn: random.seed(worker_info.seed), assign_buckets,           *)
(* assign_batches and, the first time, put_most_oom_like_batch_first.  An   *)
(* exception leaves the fields as they were when it was raised.  The seed   *)
(* is the one get_worker_info() reports, any of WorkerSeeds.                *)
worker_init_fn ==
    /\ pc \in {"constructed", "ready"}
    /\ LET ab == assign_buckets(raw_res, bucket_ratios, batch_size)
           bt == assign_batches(ab.bucket_content, batch_size, rng, np_random)
       IN  /\ bucket_content' = ab.bucket_content
           /\ to_ratio' \in np_empty(ab.to_ratio)
           /\ IF ~ab.ok
              THEN /\ pc' = "crashed"
                   /\ UNCHANGED <<batch_idxs, rng, np_random, first_time>>
              ELSE /\ rng' = bt.rng
                   /\ np_random' = bt.np_random
                   /\ IF ~first_time
                      THEN /\ batch_idxs' = bt.batch_idxs
                           /\ pc' = "ready"
                           /\ UNCHANGED first_time
                      ELSE IF oom_raises(ab.bucket_content, bt.batch_idxs)
                      THEN /\ batch_idxs' = bt.batch_idxs
                           /\ pc' = "crashed"
                           /\ UNCHANGED first_time
                      ELSE /\ batch_idxs' =
                                put_most_oom_like_batch_first(ab.bucket_content, bt.batch_idxs)
                           /\ first_time' = FALSE
                           /\ pc' = "ready"
    /\ \E seed \in WorkerSeeds : random_seed' = seed
    /\ UNCHANGED <<target_area, min_size, max_size, divisible, batch_size,
                   raw_res, length, buckets_sizes>>

(* The construction of the dataset, for every configuration, batch size and *)
(* item list of the model.                                                  *)
Construct ==
    /\ pc = "new"
    /\ \E cfg \in Configurations, bs \in 1..MaxBatch, res \in OrderedItemLists :
           dataset_init(cfg, bs, res)

(* The inputs with which generate_buckets and assign_buckets both return. *)
completes(cfg, bs, res) ==
    /\ area_check(cfg[1])
    /\ assign_buckets(res, ratios_of(generate_buckets(cfg[1], cfg[2], cfg[3], cfg[4])),
                      bs).ok

(* The construction with every item list, in every order, that the startup *)
(* completes with.                                                          *)
ConstructCompleting ==
    /\ pc = "new"
    /\ \E cfg \in Configurations, bs \in 1..MaxBatch, res \in ItemLists :
           /\ completes(cfg, bs, res)
           /\ dataset_init(cfg, bs, res)

(* The construction with the longer item lists. *)
ConstructLong ==
    /\ pc = "new"
    /\ \E cfg \in LongConfigurations, bs \in 1..MaxLongBatch, res \in LongItemLists :
           dataset_init(cfg, bs, res)

Next ==
    \/ Construct
    \/ worker_init_fn

Spec == Init /\ [][Next]_vars

NextCompleting ==
    \/ ConstructCompleting
    \/ worker_init_fn

SpecCompleting == Init /\ [][NextCompleting]_vars

NextLong ==
    \/ ConstructLong
    \/ worker_init_fn

SpecLong == Init /\ [][NextLong]_vars

---------------------------------------------------------------------------
(* Properties *)

Items == 0..(Len(raw_res) - 1)

Built == pc \in {"constructed", "ready", "crashed"}

(* The buckets (positions in the table) whose content holds item i. *)
BucketsOf(i) == { b \in 1..Len(bucket_content) : i \in Range(bucket_content[b]) }

(* The batches (positions in batch_idxs) drawn from bucket b. *)
BatchesOf(b) ==
    { k \in 1..Len(batch_idxs) : Range(batch_idxs[k]) \subseteq Range(bucket_content[b]) }

Occurrences(seq, x) == Cardinality({ k \in 1..Len(seq) : seq[k] = x })

RECURSIVE SumLen(_)
SumLen(ss) == IF ss = <<>> THEN 0 ELSE Len(Head(ss)) + SumLen(Tail(ss))

NonEmptyBuckets == { b \in 1..Len(bucket_content) : bucket_content[b] # <<>> }

(* C1: whenever assign_buckets has run, it has completed, and every item    *)
(* index is in exactly one bucket's content, exactly once.                  *)
C1_AssignCompletesAndPartitions ==
    pc \in {"ready", "crashed"} =>
        /\ pc = "ready"
        /\ \A i \in Items :
              Cardinality({ bp \in { <<b, p>> : b \in 1..Len(bucket_content),
                                                p \in 1..Len(raw_res) } :
                              /\ bp[2] <= Len(bucket_content[bp[1]])
                              /\ bucket_content[bp[1]][bp[2]] = i }) = 1
        /\ \A b \in 1..Len(bucket_content) : Range(bucket_content[b]) \subseteq Items

(* C2: after assign_buckets and assign_batches every batch is homogeneous:  *)
(* its items are in the content of one bucket and the assigned ratio of     *)
(* each of them is that bucket's ratio.                                     *)
C2_BatchesHomogeneous ==
    pc = "ready" =>
        \A k \in 1..Len(batch_idxs) :
            \E b \in 1..Len(bucket_content) :
                \A i \in Range(batch_idxs[k]) :
                    /\ i \in Range(bucket_content[b])
                    /\ to_ratio[i + 1] = bucket_ratios[b]

(* Two batches of different buckets, one of them with two or more items. *)
C2_Witness ==
    /\ pc = "ready"
    /\ \E k1, k2 \in 1..Len(batch_idxs) :
          /\ Len(batch_idxs[k1]) >= 2
          /\ \E i \in Range(batch_idxs[k1]), j \in Range(batch_idxs[k2]) :
                BucketsOf(i) # BucketsOf(j)

(* C3: a bucket of n > 0 items becomes ceil(n / batch_size) batches holding *)
(* each of its items once; every batch has 1..batch_size items, at most one *)
(* batch of a bucket is short, of length n mod batch_size, and the batch    *)
(* lengths sum to the item count.                                           *)
C3_BatchesPerBucket ==
    pc = "ready" =>
        /\ \A k \in 1..Len(batch_idxs) :
              /\ Len(batch_idxs[k]) >= 1
              /\ Len(batch_idxs[k]) <= batch_size
              /\ \E b \in NonEmptyBuckets : k \in BatchesOf(b)
        /\ \A b \in NonEmptyBuckets :
              LET n     == Len(bucket_content[b])
                  short == { k \in BatchesOf(b) : Len(batch_idxs[k]) < batch_size }
              IN  /\ Cardinality(BatchesOf(b)) = (n + batch_size - 1) \div batch_size
                  /\ \A i \in Range(bucket_content[b]) :
                        Cardinality({ k \in BatchesOf(b) :
                                        Occurrences(batch_idxs[k], i) = 1 }) = 1
                  /\ Cardinality(short) <= 1
                  /\ \A k \in short : Len(batch_idxs[k]) = n % batch_size
        /\ SumLen(batch_idxs) = Len(raw_res)

(* One bucket, 9 items, batch size 4: three batches, of lengths 4, 4 and 1. *)
C3_Witness ==
    /\ pc = "ready"
    /\ Len(buckets_sizes) = 1
    /\ Len(bucket_content[1]) = 9
    /\ batch_size = 4
    /\ Len(batch_idxs) = 3
    /\ Cardinality({ k \in 1..3 : Len(batch_idxs[k]) = 4 }) = 2
    /\ Cardinality({ k \in 1..3 : Len(batch_idxs[k]) = 1 }) = 1

(* C4: after a worker startup __len__ is the number of batches built. *)
C4_LengthIsBatchCount ==
    pc = "ready" => length = Len(batch_idxs)

(* C5: a worker startup with the seed of the startup before it gives the    *)
(* same bucket content, the same assigned ratios and the same batch order.  *)
(* The first startup also moves the lead batch to the front, so the two     *)
(* orders are compared with the lead batch in front.                        *)
C5_SameSeedSameResult ==
    [][ (pc = "ready" /\ pc' = "ready" /\ random_seed' = random_seed) =>
            /\ bucket_content' = bucket_content
            /\ to_ratio' = to_ratio
            /\ put_most_oom_like_batch_first(bucket_content', batch_idxs')
                 = put_most_oom_like_batch_first(bucket_content, batch_idxs) ]_vars

(* C6: the bucket table is in non-decreasing order of width / height and    *)
(* holds no pair twice.                                                     *)
C6_TableSortedByRatio ==
    Built =>
        /\ \A k \in 1..(Len(buckets_sizes) - 1) :
              RatioLe(bucket_ratios[k], bucket_ratios[k + 1])
        /\ \A k, m \in 1..Len(buckets_sizes) :
              buckets_sizes[k] = buckets_sizes[m] => k = m

(* C7: items of different buckets keep the order of their raw ratios: the   *)
(* smaller raw ratio has the bucket of smaller rank and of smaller ratio.   *)
C7_MonotonicAssignment ==
    pc = "ready" =>
        \A i, j \in Items :
            (BucketsOf(i) # BucketsOf(j) /\ RatioLt(raw_res[i + 1], raw_res[j + 1])) =>
                \A bi \in BucketsOf(i), bj \in BucketsOf(j) :
                    /\ bi <= bj
                    /\ RatioLe(bucket_ratios[bi], bucket_ratios[bj])

(* The non-empty bucket of lowest (highest) ratio. *)
IsLowest(b) == \A c \in NonEmptyBuckets : RatioLe(bucket_ratios[b], bucket_ratios[c])
IsHighest(b) == \A c \in NonEmptyBuckets : RatioLe(bucket_ratios[c], bucket_ratios[b])

LeadFromExtremeBucket ==
    \E b \in NonEmptyBuckets :
        /\ IsLowest(b) \/ IsHighest(b)
        /\ 1 \in BatchesOf(b)

(* C8: after the first worker startup the batch at position 0 is drawn from *)
(* the non-empty bucket of lowest or of highest ratio.                      *)
C8_LeadBatchFromExtremeBucket ==
    [][ (pc = "constructed" /\ pc' = "ready") => LeadFromExtremeBucket' ]_vars

(* The raw ratio of item i is within the ratios of the bucket table. *)
InCoveredRange(i) ==
    /\ \E b \in 1..Len(buckets_sizes) : RatioLe(bucket_ratios[b], raw_res[i + 1])
    /\ \E b \in 1..Len(buckets_sizes) : RatioLe(raw_res[i + 1], bucket_ratios[b])

(* C9: an item whose raw ratio is outside the table's range makes           *)
(* assign_buckets fail; a startup never completes with such an item placed. *)
C9_OutOfRangeFails ==
    pc = "ready" => \A i \in Items : InCoveredRange(i)

(* C10: construction fails exactly when the target area is not a multiple   *)
(* of the square of the configured step.                                    *)
C10_AreaCheckedAgainstStep ==
    pc # "new" =>
        (pc = "config_error" <=> target_area % (divisible * divisible) # 0)

===========================================================================
